---- MODULE Spec2Model ----
(***************************************************************************)
(* tempmount.TempMount: a context manager that creates a temporary         *)
(* directory, mounts a device on it, yields the resolved path to the body  *)
(* of a with statement, and on exit unmounts and removes the directory.    *)
(*                                                                         *)
(* The model holds one TempMount object driven by one with statement,      *)
(* together with the part of the operating system the object acts on: the  *)
(* directories of the temporary area and the mount table.  Each external   *)
(* call of __enter__ and __exit__ (mkdtemp, mount, umount, rmdir) is one   *)
(* step; its outcome is chosen by the environment.                         *)
(***************************************************************************)
EXTENDS Integers, Sequences, FiniteSets, TLC

VARIABLES
    device,      \* self.device
    loop,        \* self.loop
    tempdir,     \* self.tempdir; Unset until __enter__ assigns it
    pc,          \* position of the with statement
    yielded,     \* value returned by __enter__, bound by "as"
    bodyRuns,    \* number of times the body of the with statement ran
    bodyExc,     \* exception raised by the body, NoExc if none
    raised,      \* exception that leaves the with statement, NoExc if none
    calls,       \* external operations invoked so far, in order
    tmproot,     \* tempfile.gettempdir() of the process
    dirs,        \* directories that exist in the temporary area (real paths)
    mounts,      \* the mount table
    dirs0,       \* dirs when the session started
    mounts0      \* mounts when the session started

vars == <<device, loop, tempdir, pc, yielded, bodyRuns, bodyExc, raised,
          calls, tmproot, dirs, mounts, dirs0, mounts0>>

(***************************************************************************)
(* Bounds                                                                  *)
(***************************************************************************)
\* number of names the temporary-directory allocator can hand out
NumNames == 2
\* number of directories left in the temporary area by earlier programs
MaxStale == 1

(***************************************************************************)
(* Paths.  "/tmp" is a symbolic link to "/private/tmp"; "/var/tmp" is a    *)
(* real directory.  Both are possible values of tempfile.gettempdir().     *)
(***************************************************************************)
Names == {"tmp" \o ToString(i) : i \in 1..NumNames}
TempRoots == {"/tmp", "/var/tmp"}
Join(root, name) == root \o "/" \o name
TempPaths == {Join(r, n) : r \in TempRoots, n \in Names}

\* os.path.realpath: the path with symbolic links resolved
Realpath(p) ==
    IF \E n \in Names : p = Join("/tmp", n)
    THEN Join("/private/tmp", CHOOSE n \in Names : p = Join("/tmp", n))
    ELSE p

RealTempPaths == {Realpath(p) : p \in TempPaths}

Devices == {"/dev/loop0", "/nonexistent"}
Unset == "<unset>"

\* a mount of some other program, present throughout
OtherMount == [device |-> "/dev/sda1", target |-> "/mnt/data", loop |-> FALSE]

(***************************************************************************)
(* Exceptions                                                              *)
(***************************************************************************)
NoExc == [type |-> "None", op |-> "none"]
\* what the body of the with statement may raise
BodyErrors == {[type |-> "CustomError", op |-> "body"],
               [type |-> "KeyboardInterrupt", op |-> "body"]}
OSError(op) == [type |-> "OSError", op |-> op]
CalledProcessError(op) == [type |-> "CalledProcessError", op |-> op]

\* outcomes of running an external program: exit status 0, a non-zero exit
\* status, or the program could not be started
Outcomes == {"ok", "nonzero", "oserror"}

(***************************************************************************)
(* TempMount.__init__                                                      *)
(***************************************************************************)
Init ==
    /\ device \in Devices
    /\ loop \in BOOLEAN
    /\ tempdir = Unset
    /\ pc = "enter"
    /\ yielded = Unset
    /\ bodyRuns = 0
    /\ bodyExc = NoExc
    /\ raised = NoExc
    /\ calls = << >>
    /\ tmproot \in TempRoots
    /\ dirs \in {S \in SUBSET RealTempPaths : Cardinality(S) <= MaxStale}
    /\ mounts \in SUBSET {OtherMount}
    /\ dirs0 = dirs
    /\ mounts0 = mounts

(***************************************************************************)
(* The subprocess module                                                   *)
(***************************************************************************)
\* subprocess.check_call: raises when the program cannot be started and when
\* it exits with a non-zero status
CheckCall(op, out) ==
    CASE out = "ok"      -> NoExc
      [] out = "nonzero" -> CalledProcessError(op)
      [] out = "oserror" -> OSError(op)

\* subprocess.call: returns the exit status; raises only when the program
\* cannot be started
Call(op, out) ==
    IF out = "oserror" THEN OSError(op) ELSE NoExc

(***************************************************************************)
(* The operating system.  The programs act on the arguments they are       *)
(* given: the last word of a command line is the directory.                *)
(***************************************************************************)
Entry(op, argv, out) == [op |-> op, argv |-> argv, out |-> out]

Last(argv) == argv[Len(argv)]

IsMountPoint(mt, dir) == \E m \in mt : m.target = Realpath(dir)

\* mount(8) exiting 0: "mount [-o loop] device dir" attaches device at dir
OsMount(mt, argv) ==
    mt \cup {[device |-> argv[Len(argv) - 1],
              target |-> Realpath(Last(argv)),
              loop   |-> \E i \in 1..(Len(argv) - 1) :
                            argv[i] = "-o" /\ argv[i + 1] = "loop"]}

\* umount(8) exiting 0: whatever is attached at dir is detached
OsUmount(mt, argv) == {m \in mt : m.target # Realpath(Last(argv))}

\* rmdir(2) refuses a directory that is missing or is a mount point
RmdirRefused(ds, mt, dir) == Realpath(dir) \notin ds \/ IsMountPoint(mt, dir)

OsRmdir(ds, dir) == ds \ {Realpath(dir)}

(***************************************************************************)
(* TempMount.__enter__                                                     *)
(***************************************************************************)
\* variant: the attribute holds the resolved path instead
AssignTempdirResolved(path) == Realpath(path)

\* self.tempdir = tempfile.mkdtemp(): the attribute holds the path exactly
\* as the allocator returned it
AssignTempdir(path) == path

\* variant: the loopback option is never added
MountArgvNoLoop(dev, lp, dir) == <<"mount", dev, dir>>

\* prefix + [self.device, self.tempdir]
MountArgv(dev, lp, dir) ==
    (IF lp THEN <<"mount", "-o", "loop">> ELSE <<"mount">>) \o <<dev, dir>>

\* variant: the mount is run with subprocess.call, its exit status dropped
MountRaisesUnchecked(out) == Call("mount", out)

\* the exception the mount call of __enter__ raises for an outcome
MountRaises(out) == CheckCall("mount", out)

\* variant: __enter__ returns self.tempdir as it is
EnterReturnRaw(dir) == dir

\* the value __enter__ returns
EnterReturn(dir) == Realpath(dir)

\* variant: a failure of the allocator is caught and __enter__ goes on
MkdtempSwallowed(out) == NoExc

\* tempfile.mkdtemp raises OSError when it cannot create the directory;
\* __enter__ does not catch it
MkdtempRaises(out) == IF out = "ok" THEN NoExc ELSE OSError("mkdtemp")

\* self.tempdir = tempfile.mkdtemp()
EnterMkdtemp ==
    /\ pc = "enter"
    /\ \/ \E n \in Names :
            /\ Realpath(Join(tmproot, n)) \notin dirs
            /\ tempdir' = AssignTempdir(Join(tmproot, n))
            /\ dirs' = dirs \cup {Realpath(Join(tmproot, n))}
            /\ calls' = Append(calls, Entry("mkdtemp", <<Join(tmproot, n)>>, "ok"))
            /\ pc' = "mount"
            /\ UNCHANGED raised
       \/ /\ calls' = Append(calls, Entry("mkdtemp", << >>, "oserror"))
          /\ IF MkdtempRaises("oserror") # NoExc
             THEN /\ raised' = MkdtempRaises("oserror")
                  /\ pc' = "done"
             ELSE /\ pc' = "mount"
                  /\ UNCHANGED raised
          /\ UNCHANGED <<tempdir, dirs>>
    /\ UNCHANGED <<device, loop, yielded, bodyRuns, bodyExc, tmproot, mounts,
                   dirs0, mounts0>>

\* subprocess.check_call(prefix + [self.device, self.tempdir]);
\* return os.path.realpath(self.tempdir)
EnterMount ==
    /\ pc = "mount"
    /\ \E out \in Outcomes :
        LET argv == MountArgv(device, loop, tempdir) IN
        /\ calls' = Append(calls, Entry("mount", argv, out))
        /\ mounts' = IF out = "ok" THEN OsMount(mounts, argv) ELSE mounts
        /\ IF MountRaises(out) # NoExc
           THEN /\ raised' = MountRaises(out)
                /\ pc' = "done"
                /\ UNCHANGED yielded
           ELSE /\ yielded' = EnterReturn(tempdir)
                /\ pc' = "body"
                /\ UNCHANGED raised
    /\ UNCHANGED <<device, loop, tempdir, bodyRuns, bodyExc, tmproot, dirs,
                   dirs0, mounts0>>

(***************************************************************************)
(* The body of the with statement: it works on the mounted tree and either *)
(* returns or raises; it leaves the mount table and the temporary area     *)
(* alone.                                                                  *)
(***************************************************************************)
Body ==
    /\ pc = "body"
    /\ bodyRuns' = bodyRuns + 1
    /\ bodyExc' \in BodyErrors \cup {NoExc}
    /\ pc' = "umount"
    /\ UNCHANGED <<device, loop, tempdir, yielded, raised, calls, tmproot,
                   dirs, mounts, dirs0, mounts0>>

(***************************************************************************)
(* TempMount.__exit__                                                      *)
(***************************************************************************)
\* variant: __exit__ cleans up only when the body raised nothing
ExitCleansUpOnSuccess(exc) == exc = NoExc

\* __exit__ never looks at exc_type, value or traceback: its two statements
\* run whatever the body did
ExitCleansUp(exc) == TRUE

\* variant: the umount is given the resolved path
UmountArgvResolved(dir) == <<"umount", Realpath(dir)>>

\* ['umount', self.tempdir]
UmountArgv(dir) == <<"umount", dir>>

\* variant: the umount is run with subprocess.check_call
UmountRaisesChecked(out) == CheckCall("umount", out)

\* the exception the umount call of __exit__ raises for an outcome
UmountRaises(out) == Call("umount", out)

\* variant: the removal's failure is caught and dropped
RmdirSwallowed(out) == NoExc

\* os.rmdir raises OSError when the removal fails; __exit__ does not catch it
RmdirRaises(out) == IF out = "ok" THEN NoExc ELSE OSError("rmdir")

\* the value __exit__ returns when it does not raise: None, which is false
ExitReturn == FALSE

\* what leaves a with statement whose body raised exc (NoExc: returned)
\* and whose __exit__ returned ret
WithResult(exc, ret) == IF exc # NoExc /\ ~ret THEN exc ELSE NoExc

\* subprocess.call(['umount', self.tempdir])
ExitUmount ==
    /\ pc = "umount"
    /\ IF ExitCleansUp(bodyExc)
       THEN \E out \in Outcomes :
              LET argv == UmountArgv(tempdir) IN
              /\ out = "ok" => IsMountPoint(mounts, Last(argv))
              /\ calls' = Append(calls, Entry("umount", argv, out))
              /\ mounts' = IF out = "ok" THEN OsUmount(mounts, argv) ELSE mounts
              /\ IF UmountRaises(out) # NoExc
                 THEN /\ raised' = UmountRaises(out)
                      /\ pc' = "done"
                 ELSE /\ pc' = "rmdir"
                      /\ UNCHANGED raised
       ELSE /\ raised' = WithResult(bodyExc, ExitReturn)
            /\ pc' = "done"
            /\ UNCHANGED <<calls, mounts>>
    /\ UNCHANGED <<device, loop, tempdir, yielded, bodyRuns, bodyExc, tmproot,
                   dirs, dirs0, mounts0>>

\* os.rmdir(self.tempdir), then the implicit return None
ExitRmdir ==
    /\ pc = "rmdir"
    /\ \E out \in {"ok", "oserror"} :
        /\ out = "ok" => ~RmdirRefused(dirs, mounts, tempdir)
        /\ calls' = Append(calls, Entry("rmdir", <<tempdir>>, out))
        /\ dirs' = IF out = "ok" THEN OsRmdir(dirs, tempdir) ELSE dirs
        /\ raised' = IF RmdirRaises(out) # NoExc
                     THEN RmdirRaises(out)
                     ELSE WithResult(bodyExc, ExitReturn)
    /\ pc' = "done"
    /\ UNCHANGED <<device, loop, tempdir, yielded, bodyRuns, bodyExc, tmproot,
                   mounts, dirs0, mounts0>>

Next == EnterMkdtemp \/ EnterMount \/ Body \/ ExitUmount \/ ExitRmdir

Spec == Init /\ [][Next]_vars

(***************************************************************************)
(* The same object used again: nothing in TempMount records that it has    *)
(* been entered, so a later with statement on the object runs __enter__    *)
(* from its first line.                                                    *)
(***************************************************************************)
\* number of with statements that use the object
MaxUses == 2

Reenter ==
    /\ pc = "done"
    /\ Cardinality({i \in DOMAIN calls : calls[i].op = "mkdtemp"}) < MaxUses
    /\ pc' = "enter"
    /\ yielded' = Unset
    /\ bodyExc' = NoExc
    /\ raised' = NoExc
    /\ UNCHANGED <<device, loop, tempdir, bodyRuns, calls, tmproot, dirs,
                   mounts, dirs0, mounts0>>

NextReuse == Next \/ Reenter

SpecReuse == Init /\ [][NextReuse]_vars

TypeOK ==
    /\ device \in Devices
    /\ loop \in BOOLEAN
    /\ tempdir \in TempPaths \cup {Unset}
    /\ pc \in {"enter", "mount", "body", "umount", "rmdir", "done"}
    /\ yielded \in RealTempPaths \cup {Unset}
    /\ bodyRuns \in 0..1
    /\ bodyExc \in BodyErrors \cup {NoExc}
    /\ dirs \subseteq RealTempPaths
    /\ Len(calls) <= 4

(***************************************************************************)
(* Vocabulary of the properties                                            *)
(***************************************************************************)
Idx(op) == {i \in DOMAIN calls : calls[i].op = op}
Count(op) == Cardinality(Idx(op))
Did(op, out) == \E i \in Idx(op) : calls[i].out = out

\* __enter__ returned a path to the with statement
Acquired == yielded # Unset
\* the with statement is over
ScopeExited == pc = "done"
\* __exit__ was entered and raised nothing of its own
ReleaseReturned == ScopeExited /\ Acquired /\ raised.op \notin {"umount", "rmdir"}

(***************************************************************************)
(* C1: after a successful Acquire, when the scope is over the unmount has  *)
(* been invoked exactly once and the directory removal attempted exactly   *)
(* once, the unmount before the removal.                                   *)
(***************************************************************************)
C1_ReleaseOnceInOrder ==
    (ScopeExited /\ Acquired) =>
        /\ Count("umount") = 1
        /\ Count("rmdir") = 1
        /\ \A i \in Idx("umount"), j \in Idx("rmdir") : i < j

(***************************************************************************)
(* C2: when the body raised E after a successful Acquire, the error that   *)
(* leaves the scope is E, whatever the unmount did.                        *)
(***************************************************************************)
C2_BodyErrorPropagates ==
    (ScopeExited /\ bodyExc # NoExc) => raised = bodyExc

(***************************************************************************)
(* C3: when the body raised E and the directory removal of Release failed  *)
(* as well, the error that leaves the scope is E, not the removal's error. *)
(***************************************************************************)
C3_RemovalErrorNeverReplacesBodyError ==
    (ScopeExited /\ bodyExc # NoExc /\ Did("rmdir", "oserror")) =>
        /\ raised = bodyExc
        /\ raised # OSError("rmdir")

(***************************************************************************)
(* C4: when the mount invocation of Acquire fails, the body runs zero      *)
(* times and the error leaving the scope is the one the mount call raised. *)
(***************************************************************************)
C4_MountFailureSkipsBody ==
    \A i \in Idx("mount") :
        calls[i].out # "ok" =>
            /\ bodyRuns = 0
            /\ ScopeExited
            /\ raised.op = "mount"
            /\ calls[i].out = "nonzero" => raised.type = "CalledProcessError"
            /\ calls[i].out = "oserror" => raised.type = "OSError"

C4_Witness ==
    ScopeExited /\ Did("mount", "nonzero") /\ device = "/nonexistent" /\ ~loop

(***************************************************************************)
(* C5: when the unmount of Release exits with a non-zero status, Release   *)
(* raises nothing because of it and goes on to attempt the removal.        *)
(***************************************************************************)
C5_UmountStatusIgnored ==
    Did("umount", "nonzero") =>
        /\ raised.op # "umount"
        /\ pc \in {"rmdir", "done"}
        /\ ScopeExited => (Count("rmdir") = 1 /\ Idx("rmdir") = {Len(calls)})

C5_Witness == ScopeExited /\ Did("umount", "nonzero") /\ Count("rmdir") = 1

(***************************************************************************)
(* C6, as stated: after a successful Acquire, once Release has been        *)
(* executed the directory named by the yielded path no longer exists,      *)
(* whatever the body and the unmount did.                                  *)
(***************************************************************************)
C6_DirectoryGoneAfterRelease ==
    (ScopeExited /\ Acquired) => yielded \notin dirs

(***************************************************************************)
(* C6, amended: after a successful Acquire, once Release has returned      *)
(* without raising an error of its own, the directory named by the yielded *)
(* path no longer exists, whatever the body did.                           *)
(***************************************************************************)
C6_DirectoryGoneAfterQuietRelease ==
    ReleaseReturned => yielded \notin dirs

C6_Witness ==
    ReleaseReturned /\ bodyExc # NoExc /\ yielded \notin dirs /\ tmproot = "/tmp"

(***************************************************************************)
(* C7: when directory creation, mount, unmount and directory removal all   *)
(* succeeded and the scope is over, the device is no longer mounted on the *)
(* directory, the directory is gone, and the mount table and the temporary *)
(* area are what they were before the session.                             *)
(***************************************************************************)
NothingFailed == \A i \in DOMAIN calls : calls[i].out = "ok"

C7_NoLeakOnCleanPath ==
    (ScopeExited /\ NothingFailed) =>
        /\ ~IsMountPoint(mounts, yielded)
        /\ yielded \notin dirs
        /\ mounts = mounts0
        /\ dirs = dirs0

C7_Witness ==
    /\ ScopeExited /\ NothingFailed /\ Count("rmdir") = 1
    /\ bodyExc # NoExc /\ loop /\ mounts0 # {} /\ dirs0 # {}

(***************************************************************************)
(* C8: while the body runs, from the return of Acquire to the start of     *)
(* Release, the directory exists, the device is mounted on it, and the     *)
(* path the body was given is the real path of that directory.             *)
(***************************************************************************)
C8_MountedWhileBodyRuns ==
    pc \in {"body", "umount"} =>
        /\ dirs \ dirs0 = {yielded}
        /\ \E n \in Names : tempdir = Join(tmproot, n)
        /\ tmproot = "/tmp" =>
              \E n \in Names : tempdir = Join("/tmp", n)
                               /\ yielded = Join("/private/tmp", n)
        /\ tmproot # "/tmp" => yielded = tempdir
        /\ mounts \ mounts0 =
              {[device |-> device, target |-> yielded, loop |-> loop]}

C8_Witness == pc = "body" /\ tmproot = "/tmp" /\ yielded # tempdir /\ loop

(***************************************************************************)
(* C9: when the session is over, a release attempt (an unmount, then a     *)
(* removal) has been made if and only if the temporary directory was       *)
(* created, also when the mount failed after the directory was created.    *)
(***************************************************************************)
C9_ReleaseIffDirectoryCreated ==
    ScopeExited => (Count("umount") >= 1 <=> Did("mkdtemp", "ok"))

(***************************************************************************)
(* C10, as stated: in every state, tempdir is set if and only if Acquire   *)
(* has completed successfully.                                             *)
(***************************************************************************)
C10_TempdirSetIffAcquired ==
    tempdir # Unset <=> Acquired

(***************************************************************************)
(* C10, amended: in every state, tempdir is set if and only if the         *)
(* directory creation of Acquire has succeeded, and it then holds the path *)
(* the allocator returned, whether or not the mount succeeds afterwards.   *)
(***************************************************************************)
C10_TempdirSetIffDirectoryCreated ==
    /\ tempdir # Unset <=> Did("mkdtemp", "ok")
    /\ \A i \in Idx("mkdtemp") : calls[i].out = "ok" => tempdir = calls[i].argv[1]

C10_Witness ==
    ScopeExited /\ tempdir # Unset /\ ~Acquired /\ raised.op = "mount"
    /\ tmproot = "/tmp"

(***************************************************************************)
(* C11, as stated: over the whole life of a session exactly one mount      *)
(* operation is invoked and at most one unmount operation.                 *)
(***************************************************************************)
C11_ExactlyOneMount ==
    ScopeExited => (Count("mount") = 1 /\ Count("umount") <= 1)

(***************************************************************************)
(* C11, amended: over the whole life of a session driven by one with       *)
(* statement at most one mount and at most one unmount are invoked; when   *)
(* the session is over, one mount was invoked if the directory creation    *)
(* succeeded and none if it failed.                                        *)
(***************************************************************************)
C11_OneMountIfDirectoryCreated ==
    /\ Count("mount") <= 1
    /\ Count("umount") <= 1
    /\ ScopeExited =>
          Count("mount") = (IF Did("mkdtemp", "ok") THEN 1 ELSE 0)

C11_Witness ==
    ScopeExited /\ Did("mkdtemp", "oserror") /\ Count("mount") = 0 /\ loop

(***************************************************************************)
(* C12: tempdir is assigned once and never reassigned: whatever sequence   *)
(* of Acquire and Release runs on the object, tempdir keeps the value the  *)
(* first successful Acquire gave it, a second Acquire being rejected.      *)
(***************************************************************************)
FirstCreated == CHOOSE i \in Idx("mkdtemp") :
                    /\ calls[i].out = "ok"
                    /\ \A j \in Idx("mkdtemp") : calls[j].out = "ok" => i <= j

C12_TempdirAssignedOnce ==
    Did("mkdtemp", "ok") =>
        /\ tempdir = calls[FirstCreated].argv[1]
        /\ Cardinality({i \in Idx("mkdtemp") : calls[i].out = "ok"}) = 1

(***************************************************************************)
(* C13: when the unmount program of Release cannot be started (the call    *)
(* fails with an OS error), Release raises nothing because of it and still *)
(* attempts the directory removal.                                         *)
(***************************************************************************)
C13_UmountOSErrorSwallowed ==
    Did("umount", "oserror") =>
        /\ raised.op # "umount"
        /\ ScopeExited => Count("rmdir") = 1

(***************************************************************************)
(* C14: when the body returned normally and the directory removal of       *)
(* Release failed, the removal's error leaves the scope.                   *)
(***************************************************************************)
C14_RemovalFailurePropagates ==
    (ScopeExited /\ bodyRuns = 1 /\ bodyExc = NoExc /\ Did("rmdir", "oserror")) =>
        /\ raised.type = "OSError"
        /\ raised.op = "rmdir"

C14_Witness ==
    /\ ScopeExited /\ bodyRuns = 1 /\ bodyExc = NoExc
    /\ Did("umount", "ok") /\ Did("rmdir", "oserror")

(***************************************************************************)
(* C15: when the mount of Acquire fails after the directory was created,   *)
(* neither the unmount nor the removal is ever invoked and the directory   *)
(* still exists when the mount's error reaches the caller.                 *)
(***************************************************************************)
C15_FailedMountLeavesDirectory ==
    \A i \in Idx("mount") :
        (calls[i].out # "ok" /\ Did("mkdtemp", "ok")) =>
            /\ ScopeExited
            /\ raised.op = "mount"
            /\ Count("umount") = 0
            /\ Count("rmdir") = 0
            /\ \E n \in Names : /\ tempdir = Join(tmproot, n)
                                /\ tmproot = "/tmp" => Join("/private/tmp", n) \in dirs
                                /\ tmproot # "/tmp" => tempdir \in dirs
            /\ dirs # dirs0

C15_Witness ==
    ScopeExited /\ Did("mount", "oserror") /\ dirs # dirs0 /\ tmproot = "/var/tmp"

(***************************************************************************)
(* C16, as stated: the path given to the unmount is exactly the path that  *)
(* was yielded to the body, also when the allocated path goes through a    *)
(* symbolic link.                                                          *)
(***************************************************************************)
C16_UmountGetsYieldedPath ==
    \A i \in Idx("umount") : calls[i].argv = <<"umount", yielded>>

(***************************************************************************)
(* C16, amended: the path given to the unmount is the path the allocator   *)
(* returned (self.tempdir), of which the yielded path is the resolved      *)
(* form; the two are the same string only when the allocated path goes     *)
(* through no symbolic link.                                               *)
(***************************************************************************)
C16_UmountGetsAllocatedPath ==
    \A i \in Idx("umount") :
        /\ calls[i].argv = <<"umount", tempdir>>
        /\ \E j \in Idx("mkdtemp") : calls[j].out = "ok" /\ calls[j].argv = <<tempdir>>
        /\ \E n \in Names :
              /\ tempdir = Join(tmproot, n)
              /\ yielded = (IF tmproot = "/tmp" THEN Join("/private/tmp", n) ELSE tempdir)
        /\ (tempdir = yielded) <=> (tmproot # "/tmp")

C16_Witness ==
    ScopeExited /\ Did("umount", "ok") /\ tmproot = "/tmp" /\ yielded # tempdir

(***************************************************************************)
(* C17: when the directory creation of Acquire fails, the mount is never   *)
(* invoked, the body never runs, no unmount and no removal is invoked, and *)
(* the creation's error leaves the scope.                                  *)
(***************************************************************************)
C17_FailedCreationStopsAcquire ==
    Did("mkdtemp", "oserror") =>
        /\ Count("mount") = 0
        /\ bodyRuns = 0
        /\ Count("umount") = 0
        /\ Count("rmdir") = 0
        /\ ScopeExited
        /\ raised = [type |-> "OSError", op |-> "mkdtemp"]
        /\ tempdir = Unset
        /\ dirs = dirs0 /\ mounts = mounts0

C17_Witness ==
    ScopeExited /\ Did("mkdtemp", "oserror") /\ dirs0 # {} /\ device = "/dev/loop0"

(***************************************************************************)
(* C18: the mount invoked by Acquire names the session's device and the    *)
(* directory this Acquire has just created, and carries the loopback       *)
(* option exactly when loop is true.                                       *)
(***************************************************************************)
HasLoopOption(argv) ==
    \E k \in 1..(Len(argv) - 1) : argv[k] = "-o" /\ argv[k + 1] = "loop"

C18_MountArguments ==
    \A i \in Idx("mount") :
        LET argv == calls[i].argv IN
        /\ i > 1
        /\ calls[i - 1].op = "mkdtemp" /\ calls[i - 1].out = "ok"
        /\ argv[1] = "mount"
        /\ argv[Len(argv) - 1] = device
        /\ argv[Len(argv)] = calls[i - 1].argv[1]
        /\ HasLoopOption(argv) <=> loop
        /\ Len(argv) = (IF loop THEN 5 ELSE 3)

C18_Witness ==
    /\ pc = "body" /\ loop /\ device = "/dev/loop0"
    /\ \E i \in Idx("mount") : Len(calls[i].argv) = 5

(***************************************************************************)
(* C19: a scope that ends without an error has really cleaned up: the      *)
(* removal succeeded and the directory is gone; and an unmount failure     *)
(* that leaves the device mounted always ends the scope with the           *)
(* removal's error, never with silent success.                             *)
(***************************************************************************)
C19_QuietScopeMeansCleanedUp ==
    /\ (ScopeExited /\ Acquired /\ raised = NoExc) =>
          /\ Did("rmdir", "ok")
          /\ yielded \notin dirs
          /\ ~IsMountPoint(mounts, yielded)
    /\ (ScopeExited /\ Acquired /\ Count("umount") = 1 /\ ~Did("umount", "ok")
          /\ IsMountPoint(mounts, yielded)) =>
          raised = [type |-> "OSError", op |-> "rmdir"]

(***************************************************************************)
(* C20: in a single-use session every unmount and every removal is issued  *)
(* after the directory was created and against the path the allocator      *)
(* returned in this session, never against another path or the device.     *)
(***************************************************************************)
C20_ReleaseTouchesOwnDirectoryOnly ==
    \A i \in Idx("umount") \cup Idx("rmdir") :
        LET argv == calls[i].argv IN
        /\ Len(argv) = (IF calls[i].op = "umount" THEN 2 ELSE 1)
        /\ \E j \in Idx("mkdtemp") :
              /\ j < i
              /\ calls[j].out = "ok"
              /\ argv[Len(argv)] = calls[j].argv[1]
        /\ argv[Len(argv)] # device
        /\ argv[Len(argv)] \in {Join(tmproot, n) : n \in Names}

C20_Witness ==
    ScopeExited /\ Did("umount", "nonzero") /\ Did("rmdir", "oserror")
    /\ tmproot = "/tmp"

====
